---- MODULE Spec2Model ----
(***************************************************************************)
(* Model of app.py: the camera-to-speech pipeline.                         *)
(*                                                                         *)
(* Two threads: main() (frame loop, OCR gate, dedup filter, teardown in    *)
(* the finally block) and TextSpeaker._worker (the daemon thread draining  *)
(* the queue into the speech engine).  Shared state is the queue _q and    *)
(* the Event _stop.                                                        *)
(*                                                                         *)
(* A Python str is a sequence of one-character strings, so that split,     *)
(* strip, lower, join and len are computed as Python computes them.        *)
(* A float in [0,1] is a pair <<num, den>>; comparisons cross-multiply.    *)
(* Time is counted in ticks of the clock read by time.time().              *)
(***************************************************************************)
EXTENDS Integers, Sequences, FiniteSets, TLC

(* ------------------------------ bounds -------------------------------- *)

\* Largest clock reading; now ranges over clock..MaxTime.
MaxTime == 6

\* min_text_length ranges over MinLengths, built from the CLI default.
DefaultMinTextLength == 4

(* ------------------------------ strings ------------------------------- *)

\* Characters str.split() and str.strip() treat as whitespace.
Whitespace == {" ", "\n"}

\* str.lower() on one character of the alphabet the OCR texts use.
LowerChar(c) ==
    CASE c = "H" -> "h"
      [] c = "W" -> "w"
      [] c = "G" -> "g"
      [] c = "F" -> "f"
      [] c = "A" -> "a"
      [] OTHER -> c

\* a.lower()
Lower(s) == [i \in 1..Len(s) |-> LowerChar(s[i])]

\* str.split() with no argument: the maximal runs of non-whitespace,
\* in order; leading, trailing and repeated whitespace yields no empty token.
RECURSIVE SplitFrom(_, _, _)
SplitFrom(s, i, cur) ==
    IF i > Len(s)
    THEN IF cur = <<>> THEN <<>> ELSE <<cur>>
    ELSE IF s[i] \in Whitespace
         THEN IF cur = <<>>
              THEN SplitFrom(s, i + 1, <<>>)
              ELSE <<cur>> \o SplitFrom(s, i + 1, <<>>)
         ELSE SplitFrom(s, i + 1, Append(cur, s[i]))

Split(s) == SplitFrom(s, 1, <<>>)

\* " ".join(tokens)
RECURSIVE Join(_)
Join(tokens) ==
    IF tokens = <<>> THEN <<>>
    ELSE IF Len(tokens) = 1 THEN tokens[1]
    ELSE tokens[1] \o <<" ">> \o Join(Tail(tokens))

\* str.strip(): drop leading and trailing whitespace.
RECURSIVE LStrip(_)
LStrip(s) ==
    IF s # <<>> /\ s[1] \in Whitespace THEN LStrip(Tail(s)) ELSE s

RECURSIVE RStrip(_)
RStrip(s) ==
    IF s # <<>> /\ s[Len(s)] \in Whitespace
    THEN RStrip(SubSeq(s, 1, Len(s) - 1))
    ELSE s

Strip(s) == RStrip(LStrip(s))

\* normalize_text: " ".join(text.split()).strip()
normalize_text(t) == Strip(Join(Split(t)))

\* set(x.split())
TokenSet(s) == {Split(s)[i] : i \in 1..Len(Split(s))}

\* Variant: the two early returns of lines 56-59 exchanged.
JaccardEmptyCasesSwapped(a, b) ==
    LET set_a == TokenSet(Lower(a))
        set_b == TokenSet(Lower(b))
    IN  IF set_a = {} /\ set_b = {} THEN <<0, 1>>
        ELSE IF set_a = {} \/ set_b = {} THEN <<1, 1>>
        ELSE <<Cardinality(set_a \cap set_b), Cardinality(set_a \cup set_b)>>

\* Variant: the intersection divided by len(set_a) instead of the union.
JaccardOverFirstSet(a, b) ==
    LET set_a == TokenSet(Lower(a))
        set_b == TokenSet(Lower(b))
    IN  IF set_a = {} /\ set_b = {} THEN <<1, 1>>
        ELSE IF set_a = {} \/ set_b = {} THEN <<0, 1>>
        ELSE <<Cardinality(set_a \cap set_b), Cardinality(set_a)>>

\* jaccard_similarity as the fraction <<num, den>> the float stands for.
jaccard_similarity(a, b) ==
    LET set_a == TokenSet(Lower(a))
        set_b == TokenSet(Lower(b))
    IN  IF set_a = {} /\ set_b = {} THEN <<1, 1>>
        ELSE IF set_a = {} \/ set_b = {} THEN <<0, 1>>
        ELSE <<Cardinality(set_a \cap set_b), Cardinality(set_a \cup set_b)>>

\* x < y on fractions with positive denominators.
FracLess(x, y) == x[1] * y[2] < y[1] * x[2]

(* --------------------------- configuration --------------------------- *)

\* --ocr-interval default (1.2 s), in clock ticks of 0.6 s.
DefaultOcrInterval == 2

\* --similarity-threshold default, 0.8.
DefaultThreshold == <<4, 5>>

MinLengths == {0, DefaultMinTextLength}
Thresholds == {<<0, 1>>, <<1, 2>>, DefaultThreshold, <<1, 1>>}
OcrIntervals == {DefaultOcrInterval, DefaultOcrInterval + 1}

\* AppConfig, without camera_index (the camera is modelled by its outcomes).
AppConfig ==
    [ocr_interval : OcrIntervals,
     min_text_length : MinLengths,
     similarity_threshold : Thresholds]

\* parse_args with no flag given: the defaults of lines 75-93.
DefaultConfig ==
    [ocr_interval |-> DefaultOcrInterval,
     min_text_length |-> DefaultMinTextLength,
     similarity_threshold |-> DefaultThreshold]

\* The configurations a run is started with: every length gate and
\* threshold under the default interval, and every interval under the
\* default length gate and threshold.
Configs ==
    {c \in AppConfig :
        \/ c.ocr_interval = DefaultOcrInterval
        \/ /\ c.min_text_length = DefaultMinTextLength
           /\ c.similarity_threshold = DefaultThreshold}

(* ------------------------ what the OCR can return --------------------- *)

HelloWorld == <<"H","e","l","l","o"," ","W","o","r","l","d">>
HelloWorldRaw == <<"h","e","l","l","o"," "," ","w","o","r","l","d","\n">>
GoodbyeFriend == <<"G","o","o","d","b","y","e"," ","F","r","i","e","n","d">>
Hello == <<"H","e","l","l","o">>
Hey == <<"H","e","y">>

\* pytesseract.image_to_string(thresh): raw strings, before normalize_text.
RawTexts == {<<>>, <<"\n">>, HelloWorld, HelloWorldRaw, GoodbyeFriend, Hello, Hey}

(* ------------------------------- state -------------------------------- *)

VARIABLES
    config,       \* AppConfig of the run
    pcMain,       \* where main() is
    exc,          \* an exception is propagating out of main()
    clock,        \* last value time.time() returned
    last_ocr,     \* main: last_ocr
    last_text,    \* main: last_text
    text,         \* main: text, between extract_text and the dedup test
    outcome,      \* what the latest pass through the loop body did
    q,            \* TextSpeaker._q
    stop,         \* TextSpeaker._stop
    pcWorker,     \* where TextSpeaker._worker is
    wtext,        \* _worker: text
    enqueued,     \* history: every item say() put on _q, in order
    spoken,       \* history: every text passed to _engine.say, in order
    active,       \* utterances started and not yet returned from runAndWait
    saidAt,       \* history: Len(enqueued) when the utterance in progress began
    observedStop, \* _worker has read _stop.is_set() as True
    teardown,     \* history: teardown calls made, in order
    sim           \* a call of jaccard_similarity on its own: inputs, result

vars == <<config, pcMain, exc, clock, last_ocr, last_text, text, outcome,
          q, stop, pcWorker, wtext, enqueued, spoken, active, saidAt,
          observedStop, teardown, sim>>

mainVars == <<pcMain, exc, clock, last_ocr, last_text, text, outcome>>

\* Program points of the while True body (lines 119-138).
LoopPcs == {"read", "show", "gate", "ocr", "dedup", "waitkey"}

\* No call of jaccard_similarity on its own.
NoCall == [ta |-> <<>>, tb |-> <<>>, shout |-> FALSE, result |-> <<>>]

\* main() and the TextSpeaker before the camera is opened.
InitProgram ==
    /\ config \in Configs
    /\ pcMain = "open"
    /\ exc = FALSE
    /\ clock = 0
    /\ last_ocr = 0
    /\ last_text = <<>>
    /\ text = <<>>
    /\ outcome = "none"
    /\ q = <<>>
    /\ stop = FALSE
    /\ pcWorker = "unstarted"
    /\ wtext = <<>>
    /\ enqueued = <<>>
    /\ spoken = <<>>
    /\ active = 0
    /\ saidAt = 0
    /\ observedStop = FALSE
    /\ teardown = <<>>

Init == InitProgram /\ sim = NoCall

(* ---------------------------- TextSpeaker ----------------------------- *)

\* Variant: a queue of capacity one, as queue.Queue(maxsize=1) would be.
QueueFullBounded(queue) == Len(queue) >= 1

\* queue.Queue() is built with no maxsize: put never waits for room.
QueueFull(queue) == FALSE

\* Variant: a LIFO put, as queue.LifoQueue would serve it.
QueuePutFront(queue, item) == <<item>> \o queue

\* Queue.put: at the back.
QueuePut(queue, item) == Append(queue, item)

\* Variant: say() without the text.strip() test.
sayUnguarded(queue, t) == QueuePut(queue, t)

\* TextSpeaker.say: if text.strip(): self._q.put(text)
say(queue, t) == IF Strip(t) # <<>> THEN QueuePut(queue, t) ELSE queue

\* The item close() puts to wake the worker: self._q.put("").
Sentinel == <<>>

\* Variant: close() without the wake-up put.
ClosePutNothing(queue) == queue

\* Variant: close() putting the wake-up item twice.
ClosePutTwice(queue) == QueuePut(QueuePut(queue, Sentinel), Sentinel)

\* close(), second statement: the queue after self._q.put("").
ClosePut(queue) == QueuePut(queue, Sentinel)

\* Variant: self._thread.join() with no timeout.
JoinNoTimeout(threadEnded, timedOut) == threadEnded

\* self._thread.join(timeout=2) returns when the thread has ended or when
\* the timeout has run out, whichever is first.
JoinReturns(threadEnded, timedOut) == threadEnded \/ timedOut

\* Variant: _worker without the stop test of lines 42-43.
WorkerAfterGetNoBreak(stopSet, t) ==
    IF Strip(t) # <<>> THEN "speak" ELSE "test"

\* _worker, lines 42-45: where the worker goes with the item it dequeued.
WorkerAfterGet(stopSet, t) ==
    IF stopSet THEN "done"
    ELSE IF Strip(t) # <<>> THEN "speak"
    ELSE "test"

\* Variant: the loop condition inverted.
WorkerAfterTestInverted(stopSet) == IF stopSet THEN "get" ELSE "done"

\* _worker, line 40: the loop condition.
WorkerAfterTest(stopSet) == IF stopSet THEN "done" ELSE "get"

\* The thread is over: _worker returned, raised, or went with the process.
WorkerEnded == pcWorker \in {"done", "failed", "killed"}

(* ------------------------------- main --------------------------------- *)

\* Variant: the gate with a strict comparison.
SampleDueStrict(now, last, interval) == now - last > interval

\* now - last_ocr >= config.ocr_interval
SampleDue(now, last, interval) == now - last >= interval

\* Variant: the length gate off by one.
LengthPassesOffByOne(t, minLength) == Len(t) >= minLength - 1

\* len(text) >= config.min_text_length
LengthPasses(t, minLength) == Len(t) >= minLength

\* Variant: similarity <= threshold, the boundary accepted.
AtOrBelowThreshold(similarity, threshold) ==
    similarity[1] * threshold[2] <= threshold[1] * similarity[2]

\* similarity < config.similarity_threshold
BelowThreshold(similarity, threshold) == FracLess(similarity, threshold)

\* Variant: the teardown placed after the loop instead of in a finally block.
AfterLoopOnly(cause) == IF cause = "raise" THEN "done" ELSE "close_set"

\* try/finally (lines 117, 139): where control goes when the loop body is
\* left, by "break" or by "raise".
Finally(cause) == "close_set"

\* Lines 105-115: open the camera, build and start the speaker.
OpenCamera ==
    /\ pcMain = "open"
    /\ \E opened \in BOOLEAN :
         IF opened
         THEN /\ pcMain' = "read"
              /\ pcWorker' = "test"
              /\ exc' = FALSE
         ELSE /\ pcMain' = "done"
              /\ pcWorker' = pcWorker
              /\ exc' = TRUE
    /\ UNCHANGED <<sim, config, clock, last_ocr, last_text, text, outcome, q, stop,
                   wtext, enqueued, spoken, active, saidAt, observedStop, teardown>>

\* Variant: lines 120-122 without the continue.
AfterReadNoContinue(ok) == "show"

\* Lines 120-122: if not ok: ... continue
AfterRead(ok) == IF ok THEN "show" ELSE "read"

\* Lines 119-122: ok, frame = cap.read(); a failed read continues the loop.
ReadFrame ==
    /\ pcMain = "read"
    /\ \E ok \in BOOLEAN :
         /\ pcMain' = AfterRead(ok)
         /\ outcome' = IF ok THEN "none" ELSE "readfail"
    /\ UNCHANGED <<sim, config, exc, clock, last_ocr, last_text, text, q, stop,
                   pcWorker, wtext, enqueued, spoken, active, saidAt, observedStop,
                   teardown>>

\* Line 124: cv2.imshow.
ShowFrame ==
    /\ pcMain = "show"
    /\ pcMain' = "gate"
    /\ UNCHANGED <<sim, config, exc, clock, last_ocr, last_text, text, outcome, q,
                   stop, pcWorker, wtext, enqueued, spoken, active, saidAt,
                   observedStop, teardown>>

\* Lines 126-128: read the clock, test the interval, advance last_ocr.
SampleGate ==
    /\ pcMain = "gate"
    /\ \E now \in clock..MaxTime :
         /\ clock' = now
         /\ IF SampleDue(now, last_ocr, config.ocr_interval)
            THEN /\ last_ocr' = now
                 /\ pcMain' = "ocr"
                 /\ outcome' = outcome
            ELSE /\ last_ocr' = last_ocr
                 /\ pcMain' = "waitkey"
                 /\ outcome' = "unsampled"
    /\ UNCHANGED <<sim, config, exc, last_text, text, q, stop, pcWorker, wtext,
                   enqueued, spoken, active, saidAt, observedStop, teardown>>

\* Line 129: text = extract_text(frame).
ExtractText ==
    /\ pcMain = "ocr"
    /\ \E raw \in RawTexts : text' = normalize_text(raw)
    /\ pcMain' = "dedup"
    /\ UNCHANGED <<sim, config, exc, clock, last_ocr, last_text, outcome, q, stop,
                   pcWorker, wtext, enqueued, spoken, active, saidAt, observedStop,
                   teardown>>

\* Lines 130-135: length gate, similarity gate, speaker.say, last_text.
Dedup ==
    /\ pcMain = "dedup"
    /\ IF LengthPasses(text, config.min_text_length)
       THEN IF BelowThreshold(jaccard_similarity(text, last_text),
                              config.similarity_threshold)
            THEN /\ ~QueueFull(q)
                 /\ q' = say(q, text)
                 /\ enqueued' = say(enqueued, text)
                 /\ last_text' = text
                 /\ outcome' = "accepted"
            ELSE /\ outcome' = "similar"
                 /\ UNCHANGED <<q, enqueued, last_text>>
       ELSE /\ outcome' = "short"
            /\ UNCHANGED <<q, enqueued, last_text>>
    /\ pcMain' = "waitkey"
    /\ UNCHANGED <<sim, config, exc, clock, last_ocr, text, stop, pcWorker, wtext,
                   spoken, active, saidAt, observedStop, teardown>>

\* Lines 137-138: cv2.waitKey(1) & 0xFF == ord("q") breaks the loop.
WaitKey ==
    /\ pcMain = "waitkey"
    /\ \E key \in {"q", "other"} :
         pcMain' = IF key = "q" THEN Finally("break") ELSE "read"
    /\ UNCHANGED <<sim, config, exc, clock, last_ocr, last_text, text, outcome, q,
                   stop, pcWorker, wtext, enqueued, spoken, active, saidAt,
                   observedStop, teardown>>

\* Any statement of the loop body raises (cap.read, cv2.imshow,
\* extract_text, cv2.waitKey, KeyboardInterrupt): control enters finally.
LoopRaise ==
    /\ pcMain \in LoopPcs
    /\ exc' = TRUE
    /\ pcMain' = Finally("raise")
    /\ UNCHANGED <<sim, config, clock, last_ocr, last_text, text, outcome, q, stop,
                   pcWorker, wtext, enqueued, spoken, active, saidAt, observedStop,
                   teardown>>

\* Line 35: self._stop.set()
CloseSetStop ==
    /\ pcMain = "close_set"
    /\ stop' = TRUE
    /\ teardown' = Append(teardown, "close")
    /\ pcMain' = "close_put"
    /\ UNCHANGED <<sim, config, exc, clock, last_ocr, last_text, text, outcome, q,
                   pcWorker, wtext, enqueued, spoken, active, saidAt, observedStop>>

\* Line 36: self._q.put("")
ClosePutSentinel ==
    /\ pcMain = "close_put"
    /\ ~QueueFull(q)
    /\ q' = ClosePut(q)
    /\ pcMain' = "close_join"
    /\ UNCHANGED <<sim, config, exc, clock, last_ocr, last_text, text, outcome,
                   stop, pcWorker, wtext, enqueued, spoken, active, saidAt,
                   observedStop, teardown>>

\* Line 37: self._thread.join(timeout=2)
CloseJoin ==
    /\ pcMain = "close_join"
    /\ \E timedOut \in BOOLEAN :
         JoinReturns(WorkerEnded, timedOut)
    /\ pcMain' = "release"
    /\ UNCHANGED <<sim, config, exc, clock, last_ocr, last_text, text, outcome, q,
                   stop, pcWorker, wtext, enqueued, spoken, active, saidAt,
                   observedStop, teardown>>

\* Lines 141-142: cap.release(), cv2.destroyAllWindows(); main() then
\* returns, or the pending exception goes on to the caller.
ReleaseAndDestroy ==
    /\ pcMain = "release"
    /\ teardown' = teardown \o <<"release", "destroy">>
    /\ pcMain' = "done"
    /\ UNCHANGED <<sim, config, exc, clock, last_ocr, last_text, text, outcome, q,
                   stop, pcWorker, wtext, enqueued, spoken, active, saidAt,
                   observedStop>>

(* ------------------------------ _worker ------------------------------- *)

\* Line 40: while not self._stop.is_set()
WorkerTest ==
    /\ pcWorker = "test"
    /\ pcWorker' = WorkerAfterTest(stop)
    /\ observedStop' = (observedStop \/ stop)
    /\ UNCHANGED <<sim, config, mainVars, q, stop, wtext, enqueued, spoken, active,
                   saidAt, teardown>>

\* Line 41: text = self._q.get(), which blocks while the queue is empty.
WorkerGet ==
    /\ pcWorker = "get"
    /\ q # <<>>
    /\ wtext' = Head(q)
    /\ q' = Tail(q)
    /\ pcWorker' = "check"
    /\ UNCHANGED <<sim, config, mainVars, stop, enqueued, spoken, active, saidAt,
                   observedStop, teardown>>

\* Lines 42-45: the stop test after the dequeue, then self._engine.say(text).
WorkerCheck ==
    /\ pcWorker = "check"
    /\ pcWorker' = WorkerAfterGet(stop, wtext)
    /\ observedStop' = (observedStop \/ stop)
    /\ IF pcWorker' = "speak"
       THEN /\ spoken' = Append(spoken, wtext)
            /\ active' = active + 1
            /\ saidAt' = Len(enqueued)
       ELSE UNCHANGED <<spoken, active, saidAt>>
    /\ UNCHANGED <<sim, config, mainVars, q, stop, wtext, enqueued, teardown>>

\* Line 46: self._engine.runAndWait() returns; back to the loop condition.
WorkerSpeakReturn ==
    /\ pcWorker = "speak"
    /\ active' = active - 1
    /\ saidAt' = 0
    /\ pcWorker' = "test"
    /\ UNCHANGED <<sim, config, mainVars, q, stop, wtext, enqueued, spoken,
                   observedStop, teardown>>

\* Lines 45-46 raise: nothing in _worker catches, the thread ends.
WorkerSpeakFail ==
    /\ pcWorker = "speak"
    /\ active' = active - 1
    /\ saidAt' = 0
    /\ pcWorker' = "failed"
    /\ UNCHANGED <<sim, config, mainVars, q, stop, wtext, enqueued, spoken,
                   observedStop, teardown>>

(* ---------------------------- process exit ---------------------------- *)

\* Line 25 (daemon=True) and lines 144-145: once main() is over the
\* interpreter exits and takes the daemon thread with it, wherever it is.
ProcessExit ==
    /\ pcMain = "done"
    /\ pcWorker \in {"test", "get", "check", "speak"}
    /\ pcWorker' = "killed"
    /\ active' = 0
    /\ saidAt' = 0
    /\ UNCHANGED <<sim, config, mainVars, q, stop, wtext, enqueued, spoken,
                   observedStop, teardown>>

(* --------------------------- specifications --------------------------- *)

LoopNext ==
    \/ ReadFrame
    \/ ShowFrame
    \/ SampleGate
    \/ ExtractText
    \/ Dedup
    \/ WaitKey
    \/ LoopRaise

TeardownNext ==
    \/ CloseSetStop
    \/ ClosePutSentinel
    \/ CloseJoin
    \/ ReleaseAndDestroy

WorkerNext ==
    \/ WorkerTest
    \/ WorkerGet
    \/ WorkerCheck
    \/ WorkerSpeakReturn
    \/ WorkerSpeakFail

Next == OpenCamera \/ LoopNext \/ TeardownNext \/ WorkerNext \/ ProcessExit

Spec == Init /\ [][Next]_vars

(* ----------------- jaccard_similarity called on its own --------------- *)

\* Most tokens in an input string.
MaxTokens == 3

\* The words the input strings are made of.
SimTokens == {<<"a">>, <<"b">>, <<"c">>, <<"d">>}

TokenLists == UNION {[1..n -> SimTokens] : n \in 0..MaxTokens}

\* The first argument is made of the first three words only.
FirstTokenLists ==
    UNION {[1..n -> SimTokens \ {<<"d">>}] : n \in 0..MaxTokens}

\* The string passed for a list of tokens: each token after a space, a
\* newline at the end.
RECURSIVE Render(_)
Render(ts) ==
    IF ts = <<>> THEN <<"\n">> ELSE <<" ">> \o ts[1] \o Render(Tail(ts))

\* The same string with the word "a" in upper case.
Shouted(ts) == [i \in 1..Len(ts) |-> IF ts[i] = <<"a">> THEN <<"A">> ELSE ts[i]]

\* The second argument of the call.
SecondArg(call) ==
    Render(IF call.shout THEN Shouted(call.tb) ELSE call.tb)

\* The inputs are fixed at the start; nothing else of the program runs.
InitSim ==
    /\ InitProgram
    /\ config = DefaultConfig
    /\ sim \in [ta : FirstTokenLists, tb : TokenLists, shout : BOOLEAN,
                 result : {<<>>}]

\* similarity = jaccard_similarity(a, b)
JaccardCall ==
    /\ sim.result = <<>>
    /\ sim' = [sim EXCEPT
                 !.result = jaccard_similarity(Render(sim.ta), SecondArg(sim))]
    /\ UNCHANGED <<config, pcMain, exc, clock, last_ocr, last_text, text,
                   outcome, q, stop, pcWorker, wtext, enqueued, spoken,
                   active, saidAt, observedStop, teardown>>

SpecSimilarity == InitSim /\ [][JaccardCall]_vars

(* ----------------------------- fair runs ------------------------------ *)

\* A run under the default configuration.
InitDefault == Init /\ config = DefaultConfig

\* The scheduler lets the worker thread run: a worker that can take a step
\* eventually takes one (a speech call in progress returns or raises).
SpecWorkerFair == InitDefault /\ [][Next]_vars /\ WF_vars(WorkerNext)

\* The scheduler lets the main thread run through the finally block; nothing
\* is assumed of the worker, which may stay inside a speech call for ever.
SpecMainFair == InitDefault /\ [][Next]_vars /\ WF_vars(TeardownNext)

(* ------------------------------- claims ------------------------------- *)

IsPrefix(s, t) == Len(s) <= Len(t) /\ SubSeq(t, 1, Len(s)) = s

\* What the worker has taken from the queue and not yet passed on.
InHand == IF pcWorker = "check" THEN <<wtext>> ELSE <<>>

\* C1: the texts handed to the speech engine are at all times a prefix of the
\* texts say() put on the queue (same order, none twice, none skipped: until
\* stop is requested, spoken texts, the item in the worker's hand and the
\* queue make up exactly the enqueued texts), and an utterance has returned
\* before the next item is dequeued, so at most one is in progress.
C1_SpokenInEnqueueOrder ==
    /\ IsPrefix(spoken, enqueued)
    /\ ~stop => spoken \o InHand \o q = enqueued
    /\ active <= 1
    /\ pcWorker \in {"get", "check"} => active = 0

\* C1 witness: two different texts spoken in turn, a third still queued.
C1_Witness ==
    /\ Len(spoken) = 2
    /\ spoken[1] # spoken[2]
    /\ Len(enqueued) = 3
    /\ Len(q) = 1

\* C2: in every step that ends with the worker having observed stop, the
\* worker is at its end and nothing was handed to the speech engine: neither
\* the payload it just dequeued nor anything still queued is spoken.
C2_NoSpeechAfterStopObserved ==
    [][observedStop' => (pcWorker' = "done" /\ spoken' = spoken /\ active' = 0)]_vars

\* C2 witness: the worker ended on the stop test with a non-empty payload in
\* hand that was never spoken, and a payload and the sentinel still queued.
C2_Witness ==
    /\ observedStop
    /\ pcWorker = "done"
    /\ Strip(wtext) # <<>>
    /\ spoken = <<>>
    /\ Len(q) = 2

\* C3: once close() has set stop and put the sentinel, the worker ends.
C3_WorkerEndsAfterClose ==
    (pcMain = "close_join") ~> WorkerEnded

\* C3 witness: close() reached its join with the worker idle on a queue
\* that holds the sentinel alone, nothing ever enqueued or spoken.
C3_Witness ==
    /\ pcMain = "close_join"
    /\ pcWorker = "get"
    /\ q = <<Sentinel>>
    /\ enqueued = <<>>
    /\ spoken = <<>>

\* C4: close() returns and the finally block runs to its end, releasing the
\* camera and destroying the windows, whatever the worker does.
C4_CloseAlwaysReturns ==
    (pcMain = "close_set") ~>
        (pcMain = "done" /\ teardown = <<"close", "release", "destroy">>)

\* C4 witness: main() is over while the worker is still inside a speech
\* call: the join gave up on its timeout.
C4_Witness ==
    /\ pcMain = "done"
    /\ pcWorker = "speak"
    /\ teardown = <<"close", "release", "destroy">>

\* C5: once the loop is entered, close, release and destroy are called in
\* this order, each once, before main() ends, on a break as on an exception;
\* none is called while the loop runs.
C5_TeardownExactlyOnce ==
    /\ IsPrefix(teardown, <<"close", "release", "destroy">>)
    /\ pcMain \in LoopPcs => teardown = <<>>
    /\ (pcMain = "done" /\ pcWorker # "unstarted") =>
           teardown = <<"close", "release", "destroy">>

\* C5 witness: main() ended by an exception raised in the loop body, after
\* the whole teardown.
C5_Witness ==
    /\ pcMain = "done"
    /\ exc
    /\ pcWorker # "unstarted"
    /\ teardown = <<"close", "release", "destroy">>

\* The loop body's own steps, without the exception exit.
LoopStep ==
    \/ ReadFrame
    \/ ShowFrame
    \/ SampleGate
    \/ ExtractText
    \/ Dedup
    \/ WaitKey

\* C6: at every point of the loop body the main thread's next statement can
\* run, whatever the worker is doing and however long the queue is.
C6_LoopNeverWaitsForSpeech ==
    pcMain \in LoopPcs => ENABLED LoopStep

\* C6 witness: two texts were enqueued while one utterance was in progress,
\* and the loop is about to enqueue again.
C6_Witness ==
    /\ pcWorker = "speak"
    /\ saidAt = 1
    /\ Len(enqueued) = 3
    /\ pcMain \in LoopPcs

\* The main thread runs lines 130-135 in this step.
DedupStep == pcMain = "dedup" /\ pcMain' = "waitkey"

\* C7: any two texts enqueued one right after the other have similarity
\* strictly below the threshold.
C7_NoRepeatInARow ==
    \A i \in 1..(Len(enqueued) - 1) :
        FracLess(jaccard_similarity(enqueued[i + 1], enqueued[i]),
                 config.similarity_threshold)

\* C8 as stated: with last_text still empty, a detection that passes the
\* length gate is accepted, enqueued and becomes last_text.
C8_FirstQualifyingAccepted ==
    [][(DedupStep /\ last_text = <<>> /\ Len(text) >= config.min_text_length)
         => (/\ outcome' = "accepted"
             /\ last_text' = text
             /\ enqueued' = Append(enqueued, text))]_vars

\* C8 amended: with last_text still empty and a threshold above zero, a
\* non-empty detection that passes the length gate is accepted, enqueued and
\* becomes last_text.
C8_FirstNonEmptyAccepted ==
    [][(/\ DedupStep
        /\ last_text = <<>>
        /\ text # <<>>
        /\ Len(text) >= config.min_text_length
        /\ config.similarity_threshold[1] > 0)
         => (/\ outcome' = "accepted"
             /\ last_text' = text
             /\ enqueued' = Append(enqueued, text))]_vars

\* C8 witness: the first detection of the run was accepted.
C8_Witness ==
    /\ pcMain = "waitkey"
    /\ outcome = "accepted"
    /\ enqueued = <<HelloWorld>>
    /\ last_text = HelloWorld
    /\ text = HelloWorld

\* C9: a detection shorter than min_text_length is rejected and the step
\* leaves last_text, the queue and the enqueue history as they were.
C9_ShortTextChangesNothing ==
    [][(DedupStep /\ Len(text) < config.min_text_length)
         => (/\ outcome' = "short"
             /\ last_text' = last_text
             /\ q' = q
             /\ enqueued' = enqueued)]_vars

\* C9 witness: a three-character text, sharing no token with last_text, was
\* rejected by the length gate of four.
C9_Witness ==
    /\ pcMain = "waitkey"
    /\ outcome = "short"
    /\ text = Hey
    /\ last_text = HelloWorld
    /\ config.min_text_length = DefaultMinTextLength

\* Jaccard index of the lower-cased token sets >= threshold, as a reference:
\* 1 for two empty sets, 0 when one is empty.
RefSimilarityAtLeast(a, b, threshold) ==
    LET A == TokenSet(Lower(a))
        B == TokenSet(Lower(b))
    IN  IF A = {} /\ B = {} THEN threshold[1] <= threshold[2]
        ELSE IF A = {} \/ B = {} THEN threshold[1] <= 0
        ELSE Cardinality(A \cap B) * threshold[2]
                 >= threshold[1] * Cardinality(A \cup B)

\* C10: a detection that passes the length gate is suppressed exactly when
\* its similarity to last_text is greater than or equal to the threshold;
\* a suppressed detection changes neither last_text nor the queue; a
\* detection equal to last_text is suppressed under every threshold.
C10_SuppressedIffAtLeastThreshold ==
    [][(DedupStep /\ Len(text) >= config.min_text_length)
         => (/\ (outcome' = "similar") <=>
                    RefSimilarityAtLeast(text, last_text,
                                         config.similarity_threshold)
             /\ outcome' \in {"similar", "accepted"}
             /\ outcome' = "similar" =>
                    (last_text' = last_text /\ q' = q /\ enqueued' = enqueued)
             /\ text = last_text => outcome' = "similar")]_vars

\* C10 witness: similarity 1/2 against a threshold of 1/2: suppressed.
C10_Witness ==
    /\ pcMain = "waitkey"
    /\ outcome = "similar"
    /\ text = Hello
    /\ last_text = HelloWorld
    /\ config.similarity_threshold = <<1, 2>>

\* C11: say() with a text that is empty after strip() leaves the queue as it
\* was; with any other text the queue grows by exactly that text at the back.
\* Every text handed to the speech engine is non-empty after strip(): the
\* sentinel is never spoken.
C11_SayAppendsNonEmptyOnly ==
    /\ [][DedupStep /\ outcome' = "accepted"
            => IF Strip(text) = <<>>
               THEN q' = q /\ enqueued' = enqueued
               ELSE /\ Len(q') = Len(q) + 1
                    /\ SubSeq(q', 1, Len(q)) = q
                    /\ q'[Len(q')] = text]_vars
    /\ [](\A i \in 1..Len(spoken) : Strip(spoken[i]) # <<>>)

\* C11 witness: say("") was called with a text waiting in the queue, which
\* holds that text alone afterwards.
C11_Witness ==
    /\ pcMain = "waitkey"
    /\ outcome = "accepted"
    /\ text = <<>>
    /\ last_text = <<>>
    /\ Len(q) = 1
    /\ q = enqueued

\* The words of a token list, which are the lower-cased words of the
\* string passed for it, shouted or not.
RefWords(ts) == {ts[i] : i \in 1..Len(ts)}

\* The reference: 1 for two empty word sets, 0 when one is empty, otherwise
\* |intersection| / |union|.
RefSimilarity(ta, tb) ==
    LET A == RefWords(ta)
        B == RefWords(tb)
    IN  IF A = {} /\ B = {} THEN <<1, 1>>
        ELSE IF A = {} \/ B = {} THEN <<0, 1>>
        ELSE <<Cardinality(A \cap B), Cardinality(A \cup B)>>

FracEqual(x, y) == x[1] * y[2] = y[1] * x[2]

\* C12: the result of jaccard_similarity is the reference value, lies in
\* [0,1], and is the result for the arguments exchanged.
C12_SimilarityIsJaccard ==
    sim.result # <<>> =>
        /\ sim.result[2] > 0
        /\ 0 <= sim.result[1] /\ sim.result[1] <= sim.result[2]
        /\ FracEqual(sim.result, RefSimilarity(sim.ta, sim.tb))
        /\ FracEqual(sim.result,
                     jaccard_similarity(SecondArg(sim), Render(sim.ta)))

\* C12 witness: "a b c" against "A b d" gives 2/4, that is 0.5.
C12_Witness ==
    /\ sim.shout
    /\ sim.ta = <<<<"a">>, <<"b">>, <<"c">>>>
    /\ sim.tb = <<<<"a">>, <<"b">>, <<"d">>>>
    /\ sim.result = <<2, 4>>

\* The main thread takes a step of the loop body.
MainLoopStep == pcMain \in LoopPcs /\ mainVars' # mainVars

\* C13: every pass through the loop body polls the quit key: the loop goes
\* back to cap.read() only from cv2.waitKey.
C13_QuitPolledEveryIteration ==
    [][(MainLoopStep /\ pcMain' = "read") => pcMain = "waitkey"]_vars

\* C14: a pass whose cap.read() fails leaves last_text, last_ocr and the
\* queue as they were, runs no OCR (text is not assigned) and goes back to
\* cap.read() with the loop still running.
C14_FailedReadChangesNothing ==
    [][(pcMain = "read" /\ outcome # "readfail" /\ outcome' = "readfail")
         => (/\ pcMain' = "read"
             /\ last_text' = last_text
             /\ last_ocr' = last_ocr
             /\ text' = text
             /\ q' = q
             /\ enqueued' = enqueued
             /\ exc' = exc
             /\ teardown' = teardown)]_vars

\* C14 witness: a read failed after a text was accepted and a sample taken.
C14_Witness ==
    /\ pcMain = "read"
    /\ outcome = "readfail"
    /\ last_text = HelloWorld
    /\ last_ocr > 0
    /\ q # <<>>

\* C15: the gate sets last_ocr to now exactly in the passes that go on to
\* OCR, and only when now - last_ocr >= ocr_interval; every other step
\* leaves last_ocr alone, so successive OCR attempts are at least
\* ocr_interval apart and the clock never runs backwards.
C15_SamplingClock ==
    [][/\ clock' >= clock
       /\ (pcMain = "gate" /\ pcMain' = "ocr")
            => (/\ last_ocr' = clock'
                /\ clock' - last_ocr >= config.ocr_interval)
       /\ (pcMain = "gate" /\ pcMain' = "waitkey")
            => (/\ last_ocr' = last_ocr
                /\ clock' - last_ocr < config.ocr_interval)
       /\ (pcMain' = "ocr" /\ pcMain # "ocr") => pcMain = "gate"
       /\ last_ocr' # last_ocr
            => (/\ pcMain = "gate" /\ pcMain' = "ocr"
                /\ last_ocr' - last_ocr >= config.ocr_interval)]_vars

\* C15 witness: a second OCR attempt, exactly one interval after the first.
C15_Witness ==
    /\ pcMain = "ocr"
    /\ Len(enqueued) = 1
    /\ last_ocr = clock
    /\ last_ocr = 2 * config.ocr_interval

\* s is the tail of t.
IsSuffix(s, t) ==
    /\ Len(s) <= Len(t)
    /\ SubSeq(t, Len(t) - Len(s) + 1, Len(t)) = s

\* The queue without a sentinel at its end.
Payloads(queue) ==
    IF queue # <<>> /\ queue[Len(queue)] = Sentinel
    THEN SubSeq(queue, 1, Len(queue) - 1)
    ELSE queue

\* C16: the queue holds only texts say() enqueued, in order, followed by at
\* most one sentinel, which is there only once stop is set; after stop is
\* set no text is enqueued and stop stays set; the sentinel is put by the
\* one step of close() and close() is not entered again.
C16_QueueContentsAndStopMonotonic ==
    /\ [](/\ IsSuffix(Payloads(q), enqueued)
          /\ \A i \in 1..Len(q) :
               q[i] = Sentinel => (stop /\ i = Len(q)))
    /\ [][/\ stop => (stop' /\ enqueued' = enqueued)
          /\ (Len(q') > Len(q) /\ q'[Len(q')] = Sentinel)
               => (pcMain = "close_put" /\ Len(q') = Len(q) + 1)
          /\ pcMain \in {"close_join", "release", "done"}
               => pcMain' \in {"close_join", "release", "done"}]_vars

\* C16 witness: close() has put the sentinel behind a text the worker has
\* not taken yet.
C16_Witness ==
    /\ stop
    /\ Len(q) = 2
    /\ q[1] = HelloWorld
    /\ q[2] = Sentinel
    /\ pcMain = "close_join"

\* C17: last_text is empty while nothing has been enqueued and is otherwise
\* the text most recently appended to the queue.
C17_LastTextIsLastEnqueued ==
    last_text = IF enqueued = <<>> THEN <<>> ELSE enqueued[Len(enqueued)]

\* C18: once stop is set nothing more is handed to the speech engine, at
\* most one utterance is in progress, and an utterance in progress ends
\* only by runAndWait() returning or raising.
C18_OnlyCommittedUtteranceAfterStop ==
    /\ [](active <= 1)
    /\ [][/\ stop => (spoken' = spoken /\ active' <= active)
          /\ (pcWorker = "speak" /\ pcWorker' # "speak")
               => pcWorker' \in {"test", "failed"}]_vars

\* C19: once a speech call has failed, the worker hands nothing more to the
\* engine (no retry), and the loop, which would have to learn of the fault,
\* enqueues no further text for a worker that is gone.
C19_SpeechFailureReachesCaller ==
    [][pcWorker = "failed"
         => (/\ pcWorker' = "failed"
             /\ spoken' = spoken
             /\ enqueued' = enqueued)]_vars

\* C20: with a fair worker, the n-th text say() enqueued is eventually the
\* n-th text handed to the speech engine, unless close() has set stop or a
\* speech call has failed.
C20_EnqueuedEventuallySpoken ==
    \A n \in 1..MaxTime :
        (Len(enqueued) >= n) ~>
            \/ Len(spoken) >= n /\ spoken[n] = enqueued[n]
            \/ stop
            \/ pcWorker = "failed"

\* C20 witness: three texts enqueued and all three spoken, close() not called.
C20_Witness ==
    /\ ~stop
    /\ Len(enqueued) = 3
    /\ spoken = enqueued
    /\ pcWorker = "get"
    /\ q = <<>>

====
